---- MODULE Spec2Model ----
(***************************************************************************)
(* Model of the boating scene script (src/unnamed/part_000): the per-frame *)
(* callback registered on scene.onBeforeRenderObservable, the reflection   *)
(* target's pre/post render hooks, the key handlers and the asynchronous   *)
(* boat-load callback.                                                     *)
(*                                                                         *)
(* Numbers.  The script computes in IEEE doubles.  The model computes in   *)
(* fixed point: lengths, seconds, radians and dimensionless factors are    *)
(* integers counting thousandths (Q), the day-night phase counts           *)
(* millionths of a radian (its per-frame increment is below a thousandth). *)
(* Products and quotients round toward zero, so that they are odd in each  *)
(* argument as the floating-point operations are.  Math.sin is the         *)
(* Bhaskara rational approximation evaluated in that fixed point.          *)
(***************************************************************************)
EXTENDS Integers, Sequences, FiniteSets, TLC

\* ------------------------------------------------------------------------
\* Bounds of the exploration
\* ------------------------------------------------------------------------
\* number of frames the render loop is followed for
MaxFrames == 2
\* number of key events delivered between frames
MaxKeyEvents == 2
\* number of clouds followed (the script creates numberOfClouds of them)
MaxClouds == 1
\* number of clock readings the first frame is started from, a sixteenth of
\* the wave strength's period apart
MaxClockStarts == 16

\* ------------------------------------------------------------------------
\* Fixed point
\* ------------------------------------------------------------------------
Q == 1000
PhaseQ == 1000000

Abs(a) == IF a < 0 THEN -a ELSE a
Sgn(a) == IF a < 0 THEN -1 ELSE 1

\* (m * n) \div Q for naturals m >= n, without forming m * n
MulNat(m, n) == (m \div Q) * n + ((m % Q) * n) \div Q
\* a * b of two fixed-point numbers, rounded toward zero
Mul(a, b) ==
    Sgn(a) * Sgn(b) *
        (IF Abs(a) >= Abs(b) THEN MulNat(Abs(a), Abs(b)) ELSE MulNat(Abs(b), Abs(a)))
\* a / b of two fixed-point numbers, rounded toward zero
Div(a, b) == Sgn(a) * Sgn(b) * ((Abs(a) * Q) \div Abs(b))

PI == 3142
HALF_PI == 1571
TWO_PI == 6284

\* sine of an angle in [0, PI]
SinArc(x) ==
    LET p == x * (PI - x)
    IN  (Q * (p \div 4)) \div ((5 * PI * PI - 4 * p) \div 64)

\* Math.sin
Sin(a) ==
    LET r == a % TWO_PI
    IN  IF r <= PI THEN SinArc(r) ELSE -SinArc(r - PI)

\* Math.cos
Cos(a) == Sin(a + HALF_PI)

\* Math.max
Max(a, b) == IF a >= b THEN a ELSE b

\* ------------------------------------------------------------------------
\* Vectors (Vector3 of the engine), components in fixed point
\* ------------------------------------------------------------------------
Vec(a, b, c) == [x |-> a, y |-> b, z |-> c]
Zero == Vec(0, 0, 0)
VAdd(u, v) == Vec(u.x + v.x, u.y + v.y, u.z + v.z)
VSub(u, v) == Vec(u.x - v.x, u.y - v.y, u.z - v.z)
VScale(u, k) == Vec(Mul(u.x, k), Mul(u.y, k), Mul(u.z, k))
VDot(u, v) == Mul(u.x, v.x) + Mul(u.y, v.y) + Mul(u.z, v.z)
\* Vector3.Reflect(inDirection, normal) = inDirection - 2 (inDirection . normal) normal
VReflect(u, n) == VSub(u, VScale(n, 2 * VDot(u, n)))

\* ------------------------------------------------------------------------
\* Program constants
\* ------------------------------------------------------------------------
BOAT_BASE_HEIGHT == 16700
BOAT_ROTATION_Y == PI
CAMERA_ALPHA == PI
CAMERA_BETA == 1300
CAMERA_RADIUS == 190000
WORLD_SIZE == 40000
HALF_WORLD_SIZE == WORLD_SIZE \div 2
\* the world edge as a fixed-point length
Edge == HALF_WORLD_SIZE * Q
\* the edge at which a cloud re-enters, HALF_WORLD_SIZE * 1.5
CloudEdge == (HALF_WORLD_SIZE * Q * 3) \div 2

moveSpeed == 500
\* turnSpeed is 0.005 rad per millisecond of dt: 5 thousandths per dt unit
turnSpeed == 5
\* dayNightCycleSpeed is 0.00003 rad per millisecond: 30 millionths
dayNightCycleSpeed == 30
\* the cloud drift, 0.01 per millisecond: 10 thousandths
cloudDrift == 10

minAmplitude == 1000
maxAmplitude == 7000
minFrequency == 5
maxFrequency == 30
nightDuration == 500
boatWaveAmplitude == 250
pitchDelta == 5000
rollDelta == 3000

nightHemiColor == Vec(10, 20, 50)
daySunColor == Vec(1000, 950, 800)
dayHemiColor == Vec(900, 900, 1000)

lerp(a, b, t) == a + Mul(b - a, t)
lerpColor(start, end, t) ==
    Vec(start.x + Mul(end.x - start.x, t),
        start.y + Mul(end.y - start.y, t),
        start.z + Mul(end.z - start.z, t))

\* ------------------------------------------------------------------------
\* Inputs
\* ------------------------------------------------------------------------
\* the keys the per-frame callback reads
ForwardKeys == {"w", "ArrowUp"}
BackKeys == {"s", "ArrowDown"}
LeftKeys == {"a", "ArrowLeft"}
RightKeys == {"d", "ArrowRight"}
\* the keys the player presses
Keys == {"w", "ArrowUp", "s", "a"}

\* what one frame reads from the engine and the wall clock: engine.getDeltaTime()
\* in milliseconds and the milliseconds performance.now() has advanced by
FrameTimes ==
    { [dt |-> 0, elapsed |-> 3],
      [dt |-> 16, elapsed |-> 16],
      [dt |-> 40000, elapsed |-> 40007] }

\* what the loader hands to the success callback
LoadedScenes == {"noRoot", "rootWithoutChild", "rootWithChild"}

\* the places the clouds are created at (Math.random): close enough to the edge
\* that a cloud both drifts and re-enters within the frames followed
CloudStarts == {CloudEdge - 100}

\* ------------------------------------------------------------------------
\* State
\* ------------------------------------------------------------------------
VARIABLES
    pc,               \* where the frame is: "idle" between frames
    frame,            \* frames started
    inputEvents,      \* key events delivered
    clock,            \* performance.now(), milliseconds
    thrown,           \* an exception left the per-frame callback
    loader,           \* "pending" until the load callback has run
    boat,             \* the boat mesh is set
    boatContainer,    \* [defined, position, rotation]
    boatYaw,
    inputMap,         \* key -> BOOLEAN, defined on the keys written so far
    lastKeyEvent,     \* key -> the type of the last event received for it
    camera,           \* primary camera [alpha, beta, radius, target, position]
    reflectionCamera, \* [position, target]
    scene,            \* [activeCamera, clipPlane]
    waterMesh,        \* [isVisible, position]
    timeOfDay,        \* day-night phase, millionths of a radian
    clouds,           \* sequence of cloud.position.x
    uniforms,         \* what waterShaderMaterial holds
    lights,           \* sky, sun and hemispheric light fields
    local,            \* the constants of the running per-frame callback
    pre               \* the state the running frame started from

vars == << pc, frame, inputEvents, clock, thrown, loader, boat, boatContainer,
           boatYaw, inputMap, lastKeyEvent, camera, reflectionCamera, scene,
           waterMesh, timeOfDay, clouds, uniforms, lights, local, pre >>

\* ArcRotateCamera: the position orbiting target at (alpha, beta, radius)
ArcRotatePosition(alpha, beta, radius, target) ==
    VAdd(target, Vec(Mul(radius, Mul(Cos(alpha), Sin(beta))),
                     Mul(radius, Cos(beta)),
                     Mul(radius, Mul(Sin(alpha), Sin(beta)))))

NoLocal ==
    [ now |-> 0, dt |-> 0, waveStrength |-> 0, newAmplitude |-> 0,
      newFrequency |-> 0, inclinationFactor |-> 0,
      currentSunColor |-> Zero, currentHemiColor |-> Zero,
      sample |-> [amplitude |-> 0, frequency |-> 0, time |-> 0],
      verticalOffset |-> 0, heaveAt |-> Zero,
      pitchFront |-> Zero, pitchBack |-> Zero,
      rollRight |-> Zero, rollLeft |-> Zero,
      probeBase |-> Zero, probeHeading |-> 0,
      forward |-> Zero, checked |-> Zero ]

Snapshot ==
    [ boatContainer |-> boatContainer, boatYaw |-> boatYaw,
      target |-> camera.target, timeOfDay |-> timeOfDay, clouds |-> clouds ]

Init ==
    /\ pc = "idle"
    /\ frame = 0
    /\ inputEvents = 0
    /\ clock = 0
    /\ thrown = FALSE
    /\ loader = "pending"
    /\ boat = FALSE
    /\ boatContainer = [defined |-> FALSE, position |-> Zero, rotation |-> Zero]
    /\ boatYaw = 0
    /\ inputMap = [k \in {} |-> FALSE]
    /\ lastKeyEvent = [k \in Keys |-> "none"]
    /\ camera = [ alpha |-> CAMERA_ALPHA, beta |-> CAMERA_BETA,
                  radius |-> CAMERA_RADIUS, target |-> Zero,
                  position |-> ArcRotatePosition(CAMERA_ALPHA, CAMERA_BETA,
                                                 CAMERA_RADIUS, Zero) ]
    /\ reflectionCamera =
           [ position |-> ArcRotatePosition(CAMERA_ALPHA, CAMERA_BETA,
                                            CAMERA_RADIUS, Zero),
             target |-> Zero ]
    /\ scene = [activeCamera |-> "camera", clipPlane |-> << >>]
    /\ waterMesh = [isVisible |-> TRUE, position |-> Zero]
    /\ timeOfDay = PI * (PhaseQ \div Q)
    /\ clouds \in [1..MaxClouds -> CloudStarts]
    /\ uniforms = [ waveAmplitude |-> 4000, waveFrequency |-> 50, time |-> 0,
                    cameraPosition |-> Zero, sunColor |-> Zero,
                    colorBlendIntensity |-> 1000, reflectionMatrix |-> << >> ]
    /\ lights = [ inclination |-> 0, sunEmissive |-> Vec(1000, 900, 600),
                  hemiDiffuse |-> Vec(647, 784, 890), hemiIntensity |-> 800,
                  sunIntensity |-> 2000 ]
    /\ local = NoLocal
    /\ pre = Snapshot

\* ------------------------------------------------------------------------
\* The per-frame callback (scene.onBeforeRenderObservable), stage by stage.
\* The page is single threaded: no event or callback runs while pc # "idle".
\* ------------------------------------------------------------------------
\* performance.now() / 1000: milliseconds to seconds, in fixed point
Seconds(ms) == (ms * Q) \div 1000

\* const now = performance.now() / 1000; const dt = engine.getDeltaTime();
TickBegin ==
    /\ pc = "idle"
    /\ frame < MaxFrames
    /\ \E ft \in FrameTimes :
          /\ clock' = clock + ft.elapsed
          /\ local' = [NoLocal EXCEPT !.now = Seconds(clock'),
                                      !.dt = ft.dt]
    /\ frame' = frame + 1
    /\ pre' = Snapshot
    /\ pc' = "wave"
    /\ UNCHANGED << inputEvents, thrown, loader, boat, boatContainer, boatYaw,
                    inputMap, lastKeyEvent, camera, reflectionCamera, scene,
                    waterMesh, timeOfDay, clouds, uniforms, lights >>

\* a wave strength that swings by the whole sine instead of half of it
WaveStrengthFullSwing(now) == 500 + Sin(Mul(now, 50))

\* waveStrength = 0.5 + 0.5 * Math.sin(now * 0.05)
WaveStrengthAt(now) == 500 + Mul(500, Sin(Mul(now, 50)))
\* minAmplitude + (maxAmplitude - minAmplitude) * waveStrength
AmplitudeOf(waveStrength) ==
    minAmplitude + Mul(maxAmplitude - minAmplitude, waveStrength)
\* minFrequency + (maxFrequency - minFrequency) * waveStrength
FrequencyOf(waveStrength) ==
    minFrequency + Mul(maxFrequency - minFrequency, waveStrength)

WaveParameters ==
    /\ pc = "wave"
    /\ LET s == WaveStrengthAt(local.now)
       IN  local' = [local EXCEPT !.waveStrength = s,
                                  !.newAmplitude = AmplitudeOf(s),
                                  !.newFrequency = FrequencyOf(s)]
    /\ pc' = "uniforms"
    /\ UNCHANGED << frame, inputEvents, clock, thrown, loader, boat,
                    boatContainer, boatYaw, inputMap, lastKeyEvent, camera,
                    reflectionCamera, scene, waterMesh, timeOfDay, clouds,
                    uniforms, lights, pre >>

\* waterShaderMaterial.setFloat("waveAmplitude", ...) ... setVector3("vFogColor", ...)
PushUniforms ==
    /\ pc = "uniforms"
    /\ uniforms' = [uniforms EXCEPT !.waveAmplitude = local.newAmplitude,
                                    !.waveFrequency = local.newFrequency,
                                    !.colorBlendIntensity = 2000,
                                    !.time = local.now,
                                    !.cameraPosition = VScale(camera.position, Q)]
    /\ pc' = "clock"
    /\ UNCHANGED << frame, inputEvents, clock, thrown, loader, boat,
                    boatContainer, boatYaw, inputMap, lastKeyEvent, camera,
                    reflectionCamera, scene, waterMesh, timeOfDay, clouds,
                    lights, local, pre >>

\* timeOfDay += dayNightCycleSpeed * dt
AdvanceClock ==
    /\ pc = "clock"
    /\ timeOfDay' = timeOfDay + dayNightCycleSpeed * local.dt
    /\ pc' = "blend"
    /\ UNCHANGED << frame, inputEvents, clock, thrown, loader, boat,
                    boatContainer, boatYaw, inputMap, lastKeyEvent, camera,
                    reflectionCamera, scene, waterMesh, clouds, uniforms,
                    lights, local, pre >>

\* cycle = Math.sin(timeOfDay + Math.PI / 2)
CycleAt(phase) == Sin((phase + HALF_PI * (PhaseQ \div Q)) \div (PhaseQ \div Q))
\* Math.max(0, (cycle + nightDuration) / dayNightRatio)
InclinationFactor(phase) ==
    Max(0, Div(CycleAt(phase) + nightDuration, Q - nightDuration))

LightingBlend ==
    /\ pc = "blend"
    /\ LET f == InclinationFactor(timeOfDay)
       IN  local' = [local EXCEPT
                        !.inclinationFactor = f,
                        !.currentSunColor = lerpColor(nightHemiColor, daySunColor, f),
                        !.currentHemiColor = lerpColor(nightHemiColor, dayHemiColor, f)]
    /\ pc' = "lights"
    /\ UNCHANGED << frame, inputEvents, clock, thrown, loader, boat,
                    boatContainer, boatYaw, inputMap, lastKeyEvent, camera,
                    reflectionCamera, scene, waterMesh, timeOfDay, clouds,
                    uniforms, lights, pre >>

\* a callback that publishes the reflection matrix along with the lighting,
\* ahead of the boat update
PushLightingAndMatrix ==
    /\ pc = "lights"
    /\ lights' = [ inclination |-> 200 + Mul(800, local.inclinationFactor),
                   sunEmissive |-> local.currentSunColor,
                   hemiDiffuse |-> local.currentHemiColor,
                   hemiIntensity |-> 400 + Mul(600, local.inclinationFactor),
                   sunIntensity |-> 1000 + Mul(1000, local.inclinationFactor) ]
    /\ uniforms' = [uniforms EXCEPT
                       !.sunColor = local.currentSunColor,
                       !.reflectionMatrix = << "camera.projection",
                                               reflectionCamera.position,
                                               reflectionCamera.target >>]
    /\ pc' = "clouds"
    /\ UNCHANGED << frame, inputEvents, clock, thrown, loader, boat,
                    boatContainer, boatYaw, inputMap, lastKeyEvent, camera,
                    reflectionCamera, scene, waterMesh, timeOfDay, clouds,
                    local, pre >>

PushLighting ==
    /\ pc = "lights"
    /\ lights' = [ inclination |-> 200 + Mul(800, local.inclinationFactor),
                   sunEmissive |-> local.currentSunColor,
                   hemiDiffuse |-> local.currentHemiColor,
                   hemiIntensity |-> 400 + Mul(600, local.inclinationFactor),
                   sunIntensity |-> 1000 + Mul(1000, local.inclinationFactor) ]
    /\ uniforms' = [uniforms EXCEPT !.sunColor = local.currentSunColor]
    /\ pc' = "clouds"
    /\ UNCHANGED << frame, inputEvents, clock, thrown, loader, boat,
                    boatContainer, boatYaw, inputMap, lastKeyEvent, camera,
                    reflectionCamera, scene, waterMesh, timeOfDay, clouds,
                    local, pre >>

\* cloud.position.x += dt * 0.01, re-entering at the far edge
DriftCloud(x, dt) ==
    LET moved == x + cloudDrift * dt
    IN  IF moved > CloudEdge THEN -CloudEdge ELSE moved

CloudDrift ==
    /\ pc = "clouds"
    /\ clouds' = [i \in DOMAIN clouds |-> DriftCloud(clouds[i], local.dt)]
    /\ pc' = "boat"
    /\ UNCHANGED << frame, inputEvents, clock, thrown, loader, boat,
                    boatContainer, boatYaw, inputMap, lastKeyEvent, camera,
                    reflectionCamera, scene, waterMesh, timeOfDay, uniforms,
                    lights, local, pre >>

\* ------------------------------------------------------------------------
\* Boat dynamics: the body of if (boatContainer) { ... }
\* ------------------------------------------------------------------------
\* the truthiness of inputMap[k]: an entry never written reads undefined
Pressed(map, k) == k \in DOMAIN map /\ map[k]
AnyPressed(map, ks) == \E k \in ks : Pressed(map, k)

\* Math.sin(x * f + t) * Math.sin(z * f * 1.5 + t * 0.7), as the callback writes it
\* for the heave sample and for each of the four probes
BoatWave(x, z, f, t) ==
    Mul(Sin(Mul(x, f) + t), Sin(Mul(Mul(z, f), 1500) + Mul(t, 700)))

\* const waveHeight = (x, z, time) => ...: the helper the script defines and
\* never calls, with its own fixed frequency and amplitude
waveHeight(x, z, time) ==
    LET waveFrequency == 50
        waveAmplitude == 4000
        wave == Mul(Sin(Mul(x, waveFrequency) + time),
                    Sin(Mul(Mul(z, waveFrequency), 1500) + Mul(time, 700)))
    IN  Mul(wave, waveAmplitude)

\* boat samples taken with the fixed parameters of the waveHeight helper
BoatWaveParametersOfHelper(l) ==
    [amplitude |-> 4000, frequency |-> 50, time |-> l.now]

\* the water vertex shader: wave = sin(position.x * waveFrequency + time) *
\* cos(position.z * waveFrequency * 1.5 + time * 0.7), and the displaced height
\* position.y + wave * waveAmplitude, under the uniforms u
VertexDisplacement(position, u) ==
    LET wave == Mul(Sin(Mul(position.x, u.waveFrequency) + u.time),
                    Cos(Mul(Mul(position.z, u.waveFrequency), 1500) + Mul(u.time, 700)))
    IN  position.y + Mul(wave, u.waveAmplitude)

\* the amplitude, frequency and time the boat's samples are taken with
BoatWaveParameters(l) ==
    [amplitude |-> l.newAmplitude, frequency |-> l.newFrequency, time |-> l.now]

\* a callback that runs the boat logic without asking whether the boat is there
BoatAssumed(container) == TRUE

\* if (boatContainer)
BoatAvailable(container) == container.defined

BoatGate ==
    /\ pc = "boat"
    /\ pc' = IF BoatAvailable(boatContainer) THEN "heave" ELSE "matrix"
    /\ UNCHANGED << frame, inputEvents, clock, thrown, loader, boat,
                    boatContainer, boatYaw, inputMap, lastKeyEvent, camera,
                    reflectionCamera, scene, waterMesh, timeOfDay, clouds,
                    uniforms, lights, local, pre >>

\* worldPosition = boatContainer.position ... position.y = lerp(position.y, targetY, 0.05);
\* reading .position of an unset boatContainer is a TypeError that leaves the callback
Heave ==
    /\ pc = "heave"
    /\ IF boatContainer.defined
       THEN LET w == BoatWaveParameters(local)
                worldPosition == boatContainer.position
                wave == BoatWave(worldPosition.x, worldPosition.z, w.frequency, w.time)
                verticalOffset == Mul(wave, w.amplitude)
                targetY == Mul(verticalOffset, boatWaveAmplitude) + BOAT_BASE_HEIGHT
            IN  /\ boatContainer' =
                       [boatContainer EXCEPT
                           !.position.y = lerp(worldPosition.y, targetY, 50)]
                /\ local' = [local EXCEPT !.sample = w,
                                          !.verticalOffset = verticalOffset,
                                          !.heaveAt = worldPosition]
                /\ pc' = "attitude"
                /\ UNCHANGED thrown
       ELSE /\ thrown' = TRUE
            /\ pc' = "idle"
            /\ UNCHANGED << boatContainer, local >>
    /\ UNCHANGED << frame, inputEvents, clock, loader, boat, boatYaw, inputMap,
                    lastKeyEvent, camera, reflectionCamera, scene, waterMesh,
                    timeOfDay, clouds, uniforms, lights, pre >>

\* the two points the pitch slope is sampled at: front, back
PitchProbes(position) ==
    << Vec(position.x, 0, position.z + pitchDelta),
       Vec(position.x, 0, position.z - pitchDelta) >>
\* the two points the roll slope is sampled at: right, left
RollProbes(position) ==
    << Vec(position.x + rollDelta, 0, position.z),
       Vec(position.x - rollDelta, 0, position.z) >>

Attitude ==
    /\ pc = "attitude"
    /\ LET w == BoatWaveParameters(local)
           worldPosition == boatContainer.position
           pp == PitchProbes(worldPosition)
           rp == RollProbes(worldPosition)
           pitchFront == Mul(BoatWave(pp[1].x, pp[1].z, w.frequency, w.time), w.amplitude)
           pitchBack == Mul(BoatWave(pp[2].x, pp[2].z, w.frequency, w.time), w.amplitude)
           pitch == Div(pitchFront - pitchBack, 2 * pitchDelta)
           rollRight == Mul(BoatWave(rp[1].x, rp[1].z, w.frequency, w.time), w.amplitude)
           rollLeft == Mul(BoatWave(rp[2].x, rp[2].z, w.frequency, w.time), w.amplitude)
           roll == Div(rollRight - rollLeft, 2 * rollDelta)
           targetPitch == Mul(pitch, 100)
           targetRoll == Mul(roll, -500)
       IN  /\ boatContainer' =
                  [boatContainer EXCEPT
                      !.rotation.x = lerp(boatContainer.rotation.x, targetPitch, 50),
                      !.rotation.z = lerp(boatContainer.rotation.z, targetRoll, 50)]
           /\ local' = [local EXCEPT !.pitchFront = pp[1], !.pitchBack = pp[2],
                                     !.rollRight = rp[1], !.rollLeft = rp[2],
                                     !.probeBase = worldPosition,
                                     !.probeHeading = boatContainer.rotation.y]
    /\ pc' = "translate"
    /\ UNCHANGED << frame, inputEvents, clock, thrown, loader, boat, boatYaw,
                    inputMap, lastKeyEvent, camera, reflectionCamera, scene,
                    waterMesh, timeOfDay, clouds, uniforms, lights, pre >>

\* new Vector3(Math.cos(rotation.y), 0, Math.sin(-rotation.y))
Forward(heading) == Vec(Cos(heading), 0, Sin(-heading))

\* the step a pressed forward / back key adds to position; dt is in scope and
\* is not used
\* a forward step normalised to the frame time (16 ms the nominal frame)
ForwardStepPerTime(forward, dt) == VScale(forward, -((moveSpeed * dt) \div 16))
ForwardStep(forward, dt) == VScale(forward, -moveSpeed)
BackStep(forward, dt) == VScale(forward, moveSpeed)

Translate ==
    /\ pc = "translate"
    /\ LET forward == Forward(boatContainer.rotation.y)
           p0 == boatContainer.position
           p1 == IF AnyPressed(inputMap, ForwardKeys)
                 THEN VAdd(p0, ForwardStep(forward, local.dt)) ELSE p0
           p2 == IF AnyPressed(inputMap, BackKeys)
                 THEN VAdd(p1, BackStep(forward, local.dt)) ELSE p1
       IN  /\ boatContainer' = [boatContainer EXCEPT !.position = p2]
           /\ local' = [local EXCEPT !.forward = forward]
    /\ pc' = "turn"
    /\ UNCHANGED << frame, inputEvents, clock, thrown, loader, boat, boatYaw,
                    inputMap, lastKeyEvent, camera, reflectionCamera, scene,
                    waterMesh, timeOfDay, clouds, uniforms, lights, pre >>

Turn ==
    /\ pc = "turn"
    /\ LET y1 == IF AnyPressed(inputMap, LeftKeys)
                 THEN boatYaw - turnSpeed * local.dt ELSE boatYaw
           y2 == IF AnyPressed(inputMap, RightKeys)
                 THEN y1 + turnSpeed * local.dt ELSE y1
       IN  /\ boatYaw' = y2
           /\ boatContainer' =
                  [boatContainer EXCEPT
                      !.rotation.y = lerp(boatContainer.rotation.y, y2, 100)]
    /\ pc' = "wrap"
    /\ UNCHANGED << frame, inputEvents, clock, thrown, loader, boat, inputMap,
                    lastKeyEvent, camera, reflectionCamera, scene, waterMesh,
                    timeOfDay, clouds, uniforms, lights, local, pre >>

\* a boundary check that tests the positive edge only
WrapAxisPositiveOnly(v) == IF v > Edge THEN -Edge ELSE v

\* a boundary check that stops the boat at the edge it crossed
WrapAxisBounce(v) ==
    IF v > Edge THEN Edge
    ELSE IF v < -Edge THEN -Edge
    ELSE v

\* one axis of the boundary check
WrapAxis(v) ==
    IF v > Edge THEN -Edge
    ELSE IF v < -Edge THEN Edge
    ELSE v

Wrap ==
    /\ pc = "wrap"
    /\ boatContainer' =
           [boatContainer EXCEPT
               !.position.x = WrapAxis(boatContainer.position.x),
               !.position.z = WrapAxis(boatContainer.position.z)]
    /\ local' = [local EXCEPT !.checked = boatContainer.position]
    /\ pc' = "follow"
    /\ UNCHANGED << frame, inputEvents, clock, thrown, loader, boat, boatYaw,
                    inputMap, lastKeyEvent, camera, reflectionCamera, scene,
                    waterMesh, timeOfDay, clouds, uniforms, lights, pre >>

\* camera.target.copyFrom(boatContainer.position)
Follow ==
    /\ pc = "follow"
    /\ camera' = [camera EXCEPT !.target = boatContainer.position]
    /\ pc' = "matrix"
    /\ UNCHANGED << frame, inputEvents, clock, thrown, loader, boat,
                    boatContainer, boatYaw, inputMap, lastKeyEvent,
                    reflectionCamera, scene, waterMesh, timeOfDay, clouds,
                    uniforms, lights, local, pre >>

\* reflectionView = reflectionCamera.getViewMatrix();
\* combinedMatrix = camera.getProjectionMatrix().multiply(reflectionView)
CombinedMatrix(primary, mirror) ==
    << "camera.projection", mirror.position, mirror.target >>

ReflectionMatrix ==
    /\ pc = "matrix"
    /\ uniforms' = [uniforms EXCEPT
                       !.reflectionMatrix = CombinedMatrix(camera, reflectionCamera)]
    /\ pc' = "view"
    /\ UNCHANGED << frame, inputEvents, clock, thrown, loader, boat,
                    boatContainer, boatYaw, inputMap, lastKeyEvent, camera,
                    reflectionCamera, scene, waterMesh, timeOfDay, clouds,
                    lights, local, pre >>

\* ------------------------------------------------------------------------
\* The rest of scene.render(): the primary camera's view is computed, then the
\* reflection target is rendered (or is not, when the engine does not
\* schedule it this frame), between its two hooks.
\* ------------------------------------------------------------------------
CameraView ==
    /\ pc = "view"
    /\ camera' = [camera EXCEPT
                     !.position = ArcRotatePosition(camera.alpha, camera.beta,
                                                    camera.radius, camera.target)]
    /\ pc' = "target"
    /\ UNCHANGED << frame, inputEvents, clock, thrown, loader, boat,
                    boatContainer, boatYaw, inputMap, lastKeyEvent,
                    reflectionCamera, scene, waterMesh, timeOfDay, clouds,
                    uniforms, lights, local, pre >>

\* a pre-pass hook that mirrors the reflection camera's own last position
ReflectedCameraFromItself(primary, mirror) ==
    LET normal == Vec(0, Q, 0)
        reflectedPos == VReflect(mirror.position, normal)
        viewDir == VSub(primary.target, primary.position)
    IN  [position |-> reflectedPos,
         target |-> VAdd(reflectedPos, VReflect(viewDir, normal))]

\* what reflectionTexture.onBeforeRender leaves in the reflection camera
ReflectedCamera(primary, mirror) ==
    LET normal == Vec(0, Q, 0)
        camPos == primary.position
        reflectedPos == VReflect(camPos, normal)
        target == primary.target
        viewDir == VSub(target, camPos)
        reflectedTarget == VAdd(reflectedPos, VReflect(viewDir, normal))
    IN  [position |-> reflectedPos, target |-> reflectedTarget]

\* new Plane(normal.x, normal.y, normal.z, -Vector3.Dot(normal, waterMesh.position))
WaterClipPlane(water) ==
    LET normal == Vec(0, Q, 0)
    IN  << normal.x, normal.y, normal.z, -VDot(normal, water.position) >>

\* reflectionTexture.onBeforeRender
OnBeforeRender ==
    /\ pc = "target"
    /\ scene' = [activeCamera |-> "reflectionCamera",
                 clipPlane |-> WaterClipPlane(waterMesh)]
    /\ waterMesh' = [waterMesh EXCEPT !.isVisible = FALSE]
    /\ reflectionCamera' = ReflectedCamera(camera, reflectionCamera)
    /\ pc' = "pass"
    /\ UNCHANGED << frame, inputEvents, clock, thrown, loader, boat,
                    boatContainer, boatYaw, inputMap, lastKeyEvent, camera,
                    timeOfDay, clouds, uniforms, lights, local, pre >>

\* a post-pass hook that leaves the clip plane installed
RestoredKeepingClipPlane(sc, water) ==
    [ scene |-> [sc EXCEPT !.activeCamera = "camera"],
      waterMesh |-> [water EXCEPT !.isVisible = TRUE] ]

\* what reflectionTexture.onAfterRender leaves in scene and waterMesh
Restored(sc, water) ==
    [ scene |-> [activeCamera |-> "camera", clipPlane |-> << >>],
      waterMesh |-> [water EXCEPT !.isVisible = TRUE] ]

\* reflectionTexture.onAfterRender
OnAfterRender ==
    /\ pc = "pass"
    /\ scene' = Restored(scene, waterMesh).scene
    /\ waterMesh' = Restored(scene, waterMesh).waterMesh
    /\ pc' = "idle"
    /\ UNCHANGED << frame, inputEvents, clock, thrown, loader, boat,
                    boatContainer, boatYaw, inputMap, lastKeyEvent, camera,
                    reflectionCamera, timeOfDay, clouds, uniforms, lights,
                    local, pre >>

\* a frame in which the reflection target is not rendered
NoReflectionPass ==
    /\ pc = "target"
    /\ pc' = "idle"
    /\ UNCHANGED << frame, inputEvents, clock, thrown, loader, boat,
                    boatContainer, boatYaw, inputMap, lastKeyEvent, camera,
                    reflectionCamera, scene, waterMesh, timeOfDay, clouds,
                    uniforms, lights, local, pre >>

\* ------------------------------------------------------------------------
\* Events between frames
\* ------------------------------------------------------------------------
\* a handler that records every key event as a press
KeyHandlerPressOnly(map, key, type) ==
    [k \in DOMAIN map \cup {key} |-> IF k = key THEN TRUE ELSE map[k]]

\* inputMap[evt.sourceEvent.key] = evt.sourceEvent.type == "keydown"
KeyHandler(map, key, type) ==
    [k \in DOMAIN map \cup {key} |-> IF k = key THEN type = "keydown" ELSE map[k]]

OnKeyDownTrigger ==
    /\ pc = "idle"
    /\ inputEvents < MaxKeyEvents
    /\ \E k \in Keys :
          /\ inputMap' = KeyHandler(inputMap, k, "keydown")
          /\ lastKeyEvent' = [lastKeyEvent EXCEPT ![k] = "keydown"]
    /\ inputEvents' = inputEvents + 1
    /\ UNCHANGED << pc, frame, clock, thrown, loader, boat, boatContainer,
                    boatYaw, camera, reflectionCamera, scene, waterMesh,
                    timeOfDay, clouds, uniforms, lights, local, pre >>

OnKeyUpTrigger ==
    /\ pc = "idle"
    /\ inputEvents < MaxKeyEvents
    /\ \E k \in Keys :
          /\ inputMap' = KeyHandler(inputMap, k, "keyup")
          /\ lastKeyEvent' = [lastKeyEvent EXCEPT ![k] = "keyup"]
    /\ inputEvents' = inputEvents + 1
    /\ UNCHANGED << pc, frame, clock, thrown, loader, boat, boatContainer,
                    boatYaw, camera, reflectionCamera, scene, waterMesh,
                    timeOfDay, clouds, uniforms, lights, local, pre >>

\* the success callback of SceneLoader.Append
BoatLoaded ==
    /\ pc = "idle"
    /\ loader = "pending"
    /\ loader' = "done"
    /\ \E loadedScene \in LoadedScenes :
          IF loadedScene = "rootWithChild"
          THEN /\ boat' = TRUE
               /\ boatContainer' =
                      [ defined |-> TRUE,
                        position |-> Vec(0, BOAT_BASE_HEIGHT, 0),
                        rotation |-> Vec(0, BOAT_ROTATION_Y, 0) ]
               /\ boatYaw' = BOAT_ROTATION_Y
               /\ camera' = [camera EXCEPT !.target = Vec(0, BOAT_BASE_HEIGHT, 0)]
               /\ reflectionCamera' =
                      [reflectionCamera EXCEPT !.target = Vec(0, BOAT_BASE_HEIGHT, 0)]
          ELSE UNCHANGED << boat, boatContainer, boatYaw, camera, reflectionCamera >>
    /\ UNCHANGED << pc, frame, inputEvents, clock, thrown, inputMap,
                    lastKeyEvent, scene, waterMesh, timeOfDay, clouds,
                    uniforms, lights, local, pre >>

Next ==
    \/ TickBegin
    \/ WaveParameters
    \/ PushUniforms
    \/ AdvanceClock
    \/ LightingBlend
    \/ PushLighting
    \/ CloudDrift
    \/ BoatGate
    \/ Heave
    \/ Attitude
    \/ Translate
    \/ Turn
    \/ Wrap
    \/ Follow
    \/ ReflectionMatrix
    \/ CameraView
    \/ OnBeforeRender
    \/ OnAfterRender
    \/ NoReflectionPass
    \/ OnKeyDownTrigger
    \/ OnKeyUpTrigger
    \/ BoatLoaded

Spec == Init /\ [][Next]_vars

\* ------------------------------------------------------------------------
\* Later in a session: a frame boundary with the boat loaded and steered to
\* somewhere near the edge of the world, on some heading.  The boat moves by
\* moveSpeed a frame, so the edge is 40000 frames from the load position.
\* ------------------------------------------------------------------------
VoyageCoordinates == {-Edge + 200, Edge - 200}
VoyageHeadings == {PI, HALF_PI, 2356}

InitVoyage ==
    /\ pc = "idle"
    /\ frame = 0
    /\ inputEvents = 0
    /\ clock = 0
    /\ thrown = FALSE
    /\ loader = "done"
    /\ boat = TRUE
    /\ \E x \in VoyageCoordinates, z \in VoyageCoordinates, h \in VoyageHeadings :
          /\ boatContainer = [ defined |-> TRUE,
                               position |-> Vec(x, BOAT_BASE_HEIGHT, z),
                               rotation |-> Vec(0, h, 0) ]
          /\ boatYaw = h
          /\ camera = [ alpha |-> CAMERA_ALPHA, beta |-> CAMERA_BETA,
                        radius |-> CAMERA_RADIUS,
                        target |-> Vec(x, BOAT_BASE_HEIGHT, z),
                        position |-> ArcRotatePosition(CAMERA_ALPHA, CAMERA_BETA,
                                        CAMERA_RADIUS, Vec(x, BOAT_BASE_HEIGHT, z)) ]
    /\ inputMap = [k \in {} |-> FALSE]
    /\ lastKeyEvent = [k \in Keys |-> "none"]
    /\ reflectionCamera =
           [ position |-> ArcRotatePosition(CAMERA_ALPHA, CAMERA_BETA,
                                            CAMERA_RADIUS, Zero),
             target |-> Vec(0, BOAT_BASE_HEIGHT, 0) ]
    /\ scene = [activeCamera |-> "camera", clipPlane |-> << >>]
    /\ waterMesh = [isVisible |-> TRUE, position |-> Zero]
    /\ timeOfDay = PI * (PhaseQ \div Q)
    /\ clouds = [i \in 1..MaxClouds |-> 0]
    /\ uniforms = [ waveAmplitude |-> 4000, waveFrequency |-> 50, time |-> 0,
                    cameraPosition |-> Zero, sunColor |-> Zero,
                    colorBlendIntensity |-> 1000, reflectionMatrix |-> << >> ]
    /\ lights = [ inclination |-> 0, sunEmissive |-> Vec(1000, 900, 600),
                  hemiDiffuse |-> Vec(647, 784, 890), hemiIntensity |-> 800,
                  sunIntensity |-> 2000 ]
    /\ local = NoLocal
    /\ pre = Snapshot

NextVoyage ==
    \/ TickBegin
    \/ WaveParameters
    \/ PushUniforms
    \/ AdvanceClock
    \/ LightingBlend
    \/ PushLighting
    \/ CloudDrift
    \/ BoatGate
    \/ Heave
    \/ Attitude
    \/ Translate
    \/ Turn
    \/ Wrap
    \/ Follow
    \/ ReflectionMatrix
    \/ CameraView
    \/ OnBeforeRender
    \/ OnAfterRender
    \/ OnKeyDownTrigger
    \/ OnKeyUpTrigger

SpecVoyage == InitVoyage /\ [][NextVoyage]_vars

\* ------------------------------------------------------------------------
\* Claims
\* ------------------------------------------------------------------------
\* the callback has passed its boundary check and has not returned to the
\* engine's next frame
PastBoundaryCheck == pc \in {"follow", "matrix", "view"} /\ boatContainer.defined

\* C1: world wrap.  With c the position the boundary check read and p the
\* position at the end of that tick: c.x > HALF_WORLD_SIZE gives
\* p.x = -HALF_WORLD_SIZE, c.x < -HALF_WORLD_SIZE gives p.x = +HALF_WORLD_SIZE,
\* the same for z, and each axis is decided alone: an axis that is inside the
\* world keeps its value whatever the other axis does, and y is never touched.
C1_WorldWrap ==
    PastBoundaryCheck =>
        LET c == local.checked
            p == boatContainer.position
        IN  /\ c.x > Edge => p.x = -Edge
            /\ c.x < -Edge => p.x = Edge
            /\ c.z > Edge => p.z = -Edge
            /\ c.z < -Edge => p.z = Edge
            /\ (c.x >= -Edge /\ c.x <= Edge) => p.x = c.x
            /\ (c.z >= -Edge /\ c.z <= Edge) => p.z = c.z
            /\ p.y = c.y

\* a tick ended in which x left the world on the positive side while z stayed inside
C1_Witness ==
    /\ pc = "view"
    /\ boatContainer.defined
    /\ local.checked.x > Edge
    /\ local.checked.z > 0
    /\ local.checked.z <= Edge
    /\ boatContainer.position.x = -Edge
    /\ boatContainer.position.z = local.checked.z

\* the callback has returned; the engine has not yet started on the render
TickDone == pc = "view"

\* C2: a tick that runs while boatContainer is unset (the load callback not yet
\* fired, or fired without a "__root__" mesh or without a child) raises no
\* exception, leaves boatYaw, the boat's position and rotation and
\* camera.target as they were, and still advances the day-night phase by
\* dayNightCycleSpeed * dt, drifts the clouds and publishes the reflection
\* matrix; a tick that runs once boatContainer is set runs the boat logic
\* (it samples the wave at the boat and points camera.target at the boat).
C2_AssetNotReady ==
    /\ ~thrown
    /\ (pc # "idle" /\ ~boatContainer.defined) =>
          /\ boatYaw = pre.boatYaw
          /\ boatContainer = pre.boatContainer
          /\ camera.target = pre.target
    /\ (TickDone /\ ~boatContainer.defined) =>
          /\ timeOfDay = pre.timeOfDay + dayNightCycleSpeed * local.dt
          /\ clouds = [i \in DOMAIN clouds |-> DriftCloud(pre.clouds[i], local.dt)]
          /\ uniforms.reflectionMatrix =
                 << "camera.projection", reflectionCamera.position,
                    reflectionCamera.target >>
    /\ (TickDone /\ boatContainer.defined) =>
          /\ local.heaveAt = pre.boatContainer.position
          /\ local.sample.time = local.now
          /\ camera.target = boatContainer.position

\* the load callback has fired without producing a boat, and a later tick with
\* dt > 0 has completed
C2_Witness ==
    /\ TickDone
    /\ loader = "done"
    /\ ~boatContainer.defined
    /\ local.dt > 0
    /\ timeOfDay > pre.timeOfDay
    /\ uniforms.reflectionMatrix # << >>

\* C3: inputMap holds the last known state of every key: false after a key-up
\* for it, true after a key-down for it, no entry before its first event, in
\* every state up to the key's next event -- in particular during and after
\* every tick, which reads the map and writes nothing to it.
C3_LastKnownState ==
    /\ DOMAIN inputMap \subseteq Keys
    /\ \A k \in Keys :
          /\ lastKeyEvent[k] = "none" => k \notin DOMAIN inputMap
          /\ lastKeyEvent[k] = "keydown" => (k \in DOMAIN inputMap /\ inputMap[k] = TRUE)
          /\ lastKeyEvent[k] = "keyup" => (k \in DOMAIN inputMap /\ inputMap[k] = FALSE)

\* "w" went down and up again, and a tick with the boat loaded has read the map since
C3_Witness ==
    /\ TickDone
    /\ boatContainer.defined
    /\ lastKeyEvent["w"] = "keyup"
    /\ inputMap["w"] = FALSE
    /\ boatContainer.position.x = pre.boatContainer.position.x

\* C4: between the reflection target's pre-pass and post-pass hooks the active
\* camera is the reflection camera, the water mesh is hidden and the clip
\* plane (0, 1, 0, -waterMesh.position.y) is installed; in every other state
\* the active camera is the primary camera, the water mesh is visible and
\* scene.clipPlane is null.
C4_PassBracket ==
    IF pc = "pass"
    THEN /\ scene.activeCamera = "reflectionCamera"
         /\ ~waterMesh.isVisible
         /\ scene.clipPlane = << 0, Q, 0, -waterMesh.position.y >>
    ELSE /\ scene.activeCamera = "camera"
         /\ waterMesh.isVisible
         /\ scene.clipPlane = << >>

\* the second frame's tick runs after the first frame's reflection pass; its
\* matrix is built from the mirrored camera that pass left behind
C4_Witness ==
    /\ pc = "view"
    /\ frame = 2
    /\ reflectionCamera.position.y < 0
    /\ scene.clipPlane = << >>
    /\ waterMesh.isVisible
    /\ scene.activeCamera = "camera"

\* C5: after every pre-pass call the reflection camera's position is the
\* primary camera's position with y negated (its mirror image in the plane of
\* normal (0,1,0)) and its target is that position plus the primary camera's
\* view direction target - position with y negated: a function of the primary
\* camera's current position and target alone.
C5_MirroredCamera ==
    pc = "pass" =>
        LET c == camera.position
            d == VSub(camera.target, camera.position)
        IN  /\ reflectionCamera.position = Vec(c.x, -c.y, c.z)
            /\ reflectionCamera.target = Vec(c.x + d.x, -c.y - d.y, c.z + d.z)

\* a second pre-pass with the primary camera where it was: the matrix published
\* by this frame's tick was built from the previous pass's reflection camera,
\* and this pass has produced the same camera again
C5_Witness ==
    /\ pc = "pass"
    /\ frame = 2
    /\ uniforms.reflectionMatrix # << >>
    /\ uniforms.reflectionMatrix[2].y < 0
    /\ uniforms.reflectionMatrix[2] = reflectionCamera.position
    /\ uniforms.reflectionMatrix[3] = reflectionCamera.target

\* the boat logic of the running tick has taken its heave sample
HeaveSampled ==
    pc \in {"attitude", "translate", "turn", "wrap", "follow", "matrix", "view"}
        /\ boatContainer.defined

\* C6: the height the boat dynamics samples at the boat's (x, z) equals the
\* displacement the water vertex shader applies to the vertex at (x, z) under
\* the uniforms of the same tick.
C6_SameWaveOnBothPaths ==
    HeaveSampled =>
        local.verticalOffset =
            VertexDisplacement(Vec(local.heaveAt.x, 0, local.heaveAt.z), uniforms)

\* C7: the 'now' of a tick is the one reading of the clock taken at its start,
\* and the amplitude, frequency and time of the boat's wave samples are the
\* waveAmplitude, waveFrequency and time uniforms pushed in that same tick.
C7_SingleSnapshot ==
    /\ pc \notin {"idle", "wave", "uniforms"} =>
          /\ uniforms.time = Seconds(clock)
          /\ uniforms.time = local.now
          /\ uniforms.waveAmplitude = local.newAmplitude
          /\ uniforms.waveFrequency = local.newFrequency
    /\ HeaveSampled =>
          /\ local.sample.amplitude = uniforms.waveAmplitude
          /\ local.sample.frequency = uniforms.waveFrequency
          /\ local.sample.time = uniforms.time

\* a second tick with the boat loaded, sampling with parameters that are
\* neither the material's initial ones nor stale
C7_Witness ==
    /\ TickDone
    /\ frame = 2
    /\ boatContainer.defined
    /\ local.sample.amplitude # 4000
    /\ local.sample.frequency # 50
    /\ local.sample.time = Seconds(clock)
    /\ local.sample.time > 40000

\* C8: for every phase the day-night clock reaches from PI by ticks with
\* dt >= 0, the daylight factor the tick computes lies in [0, 1].
C8_DaylightInUnitInterval ==
    /\ InclinationFactor(timeOfDay) >= 0
    /\ InclinationFactor(timeOfDay) <= Q

\* the translation of the running tick has been applied and no wrap has
\* replaced the position it produced
TranslatedNoWrap ==
    /\ boatContainer.defined
    /\ \/ pc \in {"turn", "wrap"}
       \/ /\ pc \in {"follow", "matrix", "view"}
          /\ local.checked.x >= -Edge /\ local.checked.x <= Edge
          /\ local.checked.z >= -Edge /\ local.checked.z <= Edge

\* C9: in a tick with the boat loaded and no wrap, with h the boat's heading
\* when the translation runs (the heading the tick started with) and
\* forward = (cos h, 0, sin(-h)): a forward key without a back key moves
\* (x, z) by exactly -moveSpeed * forward, a back key without a forward key by
\* exactly +moveSpeed * forward, whatever dt is; y is what the heave step left
\* (the translation does not touch it).
C9_ConstantStep ==
    TranslatedNoWrap =>
        LET h == pre.boatContainer.rotation.y
            f == Vec(Cos(h), 0, Sin(-h))
            p0 == pre.boatContainer.position
            p == boatContainer.position
            fwd == AnyPressed(inputMap, ForwardKeys)
            back == AnyPressed(inputMap, BackKeys)
        IN  /\ local.forward = f
            /\ (fwd /\ ~back) =>
                  /\ p.x = p0.x - Mul(moveSpeed, f.x)
                  /\ p.z = p0.z - Mul(moveSpeed, f.z)
            /\ (back /\ ~fwd) =>
                  /\ p.x = p0.x + Mul(moveSpeed, f.x)
                  /\ p.z = p0.z + Mul(moveSpeed, f.z)
            /\ p.y = lerp(p0.y,
                          Mul(local.verticalOffset, boatWaveAmplitude)
                              + BOAT_BASE_HEIGHT, 50)

\* a long frame (dt = 40000) with a forward key down, no back key, after the
\* boat has turned off its load heading: the step is moveSpeed long all the same
C9_Witness ==
    /\ TickDone
    /\ boatContainer.defined
    /\ local.dt = 40000
    /\ AnyPressed(inputMap, ForwardKeys)
    /\ ~AnyPressed(inputMap, BackKeys)
    /\ pre.boatContainer.rotation.y # BOAT_ROTATION_Y
    /\ local.forward.z # 0
    /\ boatContainer.position.x =
           pre.boatContainer.position.x - Mul(moveSpeed, local.forward.x)
    /\ boatContainer.position # pre.boatContainer.position

\* the boat logic of the running tick has taken its pitch and roll samples
ProbesSampled ==
    pc \in {"translate", "turn", "wrap", "follow", "matrix", "view"}
        /\ boatContainer.defined

\* C10: with b the boat's position and forward the heading-derived forward
\* vector when the probes are taken, the two pitch samples are taken at
\* b + 5 forward and b - 5 forward, and the two roll samples at b + 3 lateral
\* and b - 3 lateral, lateral being forward turned a quarter turn in the
\* water plane.
C10_ProbesFollowHeading ==
    ProbesSampled =>
        LET b == local.probeBase
            f == Forward(local.probeHeading)
            lateral == Vec(-f.z, 0, f.x)
            at(v, k) == Vec(b.x + Mul(k, v.x), 0, b.z + Mul(k, v.z))
        IN  /\ {local.pitchFront, local.pitchBack} =
                   {at(f, pitchDelta), at(f, -pitchDelta)}
            /\ {local.rollRight, local.rollLeft} =
                   {at(lateral, rollDelta), at(lateral, -rollDelta)}

\* the steps of one tick in the order the spec gives them; the boat update
\* spans the stages from "heave" to "follow"
TickOrder ==
    << "wave", "uniforms", "clock", "blend", "lights", "clouds", "boat",
       "heave", "attitude", "translate", "turn", "wrap", "follow", "matrix" >>

\* stage b is the stage that follows stage a: the next one of TickOrder, or the
\* reflection matrix straight after the gate of a boat update that is skipped
Succeeds(a, b) ==
    \/ \E i \in 1..(Len(TickOrder) - 1) : a = TickOrder[i] /\ b = TickOrder[i + 1]
    \/ a = "boat" /\ b = "matrix"
    \/ a = "idle" /\ b = "wave"
    \/ a = "matrix" /\ b = "view"
    \/ a = "view" /\ b = "target"
    \/ a = "target" /\ b \in {"pass", "idle"}
    \/ a = "pass" /\ b = "idle"

BoatStages == {"heave", "attitude", "translate", "turn", "wrap"}

\* C11: every tick runs its steps in the fixed order: wave strength and the
\* amplitude and frequency derived from it, their push to the water uniforms,
\* the day-night phase, the lighting blend, the push of the lighting, the
\* cloud drift, the boat update, the reflection matrix.  Every change of
\* position is to the next stage of that order, a tick starts only between
\* frames, and each piece of state is written at its own stage only: in
\* particular the reflection matrix is published only after the boat update
\* and the camera-target update of the same tick.
C11_TickOrder ==
    [][ /\ pc' # pc => Succeeds(pc, pc')
        /\ frame' # frame => (pc = "idle" /\ pc' = "wave")
        /\ ( \/ local'.waveStrength # local.waveStrength
             \/ local'.newAmplitude # local.newAmplitude
             \/ local'.newFrequency # local.newFrequency ) => pc \in {"idle", "wave"}
        /\ ( \/ uniforms'.waveAmplitude # uniforms.waveAmplitude
             \/ uniforms'.waveFrequency # uniforms.waveFrequency
             \/ uniforms'.time # uniforms.time ) => pc = "uniforms"
        /\ timeOfDay' # timeOfDay => pc = "clock"
        /\ local'.inclinationFactor # local.inclinationFactor => pc \in {"idle", "blend"}
        /\ lights' # lights => pc = "lights"
        /\ clouds' # clouds => pc = "clouds"
        /\ (boatContainer' # boatContainer \/ boatYaw' # boatYaw) =>
               pc \in BoatStages \cup {"idle"}
        /\ camera'.target # camera.target => pc \in {"follow", "idle"}
        /\ uniforms'.reflectionMatrix # uniforms.reflectionMatrix => pc = "matrix"
      ]_vars

\* a second tick with the boat loaded has run to its end: the phase has
\* advanced, the boat has moved, the camera target has followed it and the
\* matrix has been published
C11_Witness ==
    /\ TickDone
    /\ frame = 2
    /\ boatContainer.defined
    /\ timeOfDay > pre.timeOfDay
    /\ clouds # pre.clouds
    /\ boatContainer.position.x # pre.boatContainer.position.x
    /\ camera.target = boatContainer.position
    /\ camera.target # pre.target
    /\ uniforms.time = local.now
    /\ uniforms.reflectionMatrix # << >>

\* ------------------------------------------------------------------------
\* The first frame at any time after the page began to load: performance.now()
\* counts from the start of navigation, and the first frame comes whenever the
\* engine is ready.  The readings are spread over the period of the wave
\* strength, 2 pi / 0.05 seconds, so that a frame 16 ms later falls on its
\* quarter points.  No boat is loaded and no key is pressed.
\* ------------------------------------------------------------------------
\* a quarter of the period of sin(now * 0.05), in milliseconds
QuarterPeriod == HALF_PI * 20

ClockStarts == { (k * QuarterPeriod) \div 4 - 16 : k \in 1..MaxClockStarts }

InitWave ==
    /\ pc = "idle"
    /\ frame = 0
    /\ inputEvents = 0
    /\ clock \in ClockStarts
    /\ thrown = FALSE
    /\ loader = "pending"
    /\ boat = FALSE
    /\ boatContainer = [defined |-> FALSE, position |-> Zero, rotation |-> Zero]
    /\ boatYaw = 0
    /\ inputMap = [k \in {} |-> FALSE]
    /\ lastKeyEvent = [k \in Keys |-> "none"]
    /\ camera = [ alpha |-> CAMERA_ALPHA, beta |-> CAMERA_BETA,
                  radius |-> CAMERA_RADIUS, target |-> Zero,
                  position |-> ArcRotatePosition(CAMERA_ALPHA, CAMERA_BETA,
                                                 CAMERA_RADIUS, Zero) ]
    /\ reflectionCamera =
           [ position |-> ArcRotatePosition(CAMERA_ALPHA, CAMERA_BETA,
                                            CAMERA_RADIUS, Zero),
             target |-> Zero ]
    /\ scene = [activeCamera |-> "camera", clipPlane |-> << >>]
    /\ waterMesh = [isVisible |-> TRUE, position |-> Zero]
    /\ timeOfDay = PI * (PhaseQ \div Q)
    /\ clouds \in [1..MaxClouds -> CloudStarts]
    /\ uniforms = [ waveAmplitude |-> 4000, waveFrequency |-> 50, time |-> 0,
                    cameraPosition |-> Zero, sunColor |-> Zero,
                    colorBlendIntensity |-> 1000, reflectionMatrix |-> << >> ]
    /\ lights = [ inclination |-> 0, sunEmissive |-> Vec(1000, 900, 600),
                  hemiDiffuse |-> Vec(647, 784, 890), hemiIntensity |-> 800,
                  sunIntensity |-> 2000 ]
    /\ local = NoLocal
    /\ pre = Snapshot

NextWave ==
    \/ TickBegin
    \/ WaveParameters
    \/ PushUniforms
    \/ AdvanceClock
    \/ LightingBlend
    \/ PushLighting
    \/ CloudDrift
    \/ BoatGate
    \/ ReflectionMatrix
    \/ CameraView
    \/ NoReflectionPass

SpecWave == InitWave /\ [][NextWave]_vars

\* the running tick has derived its wave strength, amplitude and frequency
WaveDerived == pc \notin {"idle", "wave"}

\* C12: the wave strength a tick derives lies in [0, 1]; the amplitude is
\* minAmplitude + (maxAmplitude - minAmplitude) * strength and lies in
\* [1.0, 7.0], the frequency lies in [0.005, 0.03]; at strength 0 they are 1.0
\* and 0.005, at strength 1 they are 7.0 and 0.03; and both are non-decreasing
\* in the strength: no smaller strength in [0, 1] gives more, no larger gives
\* less.
C12_WaveParameters ==
    WaveDerived =>
        LET s == local.waveStrength
            a == local.newAmplitude
            f == local.newFrequency
        IN  /\ s >= 0 /\ s <= Q
            /\ a = 1000 + Mul(6000, s)
            /\ a >= 1000 /\ a <= 7000
            /\ f >= 5 /\ f <= 30
            /\ s = 0 => (a = 1000 /\ f = 5)
            /\ s = Q => (a = 7000 /\ f = 30)
            /\ \A t \in 0..Q :
                  /\ t <= s => (AmplitudeOf(t) <= a /\ FrequencyOf(t) <= f)
                  /\ t >= s => (AmplitudeOf(t) >= a /\ FrequencyOf(t) >= f)

\* a tick at the crest of the wave strength: strength 1, amplitude 7.0
C12_Witness ==
    /\ WaveDerived
    /\ local.waveStrength = Q
    /\ local.newAmplitude = 7000
    /\ uniforms.waveAmplitude = 7000

\* a tick has ended, or the boat has just been loaded, and the next tick has
\* not begun
BetweenTicks == pc \in {"view", "target", "pass", "idle"} /\ boatContainer.defined

\* C13: whenever no tick is running and the boat is loaded -- after the load
\* and after every tick, whatever the keys and dt were -- the boat's
\* position.x and position.z lie in [-HALF_WORLD_SIZE, +HALF_WORLD_SIZE] and
\* camera.target is the boat's position.
C13_InsideWorld ==
    BetweenTicks =>
        /\ boatContainer.position.x >= -Edge
        /\ boatContainer.position.x <= Edge
        /\ boatContainer.position.z >= -Edge
        /\ boatContainer.position.z <= Edge
        /\ camera.target = boatContainer.position

\* a tick ended in which the boat had stepped out of the world on the negative
\* x side: it is back on the positive edge and the camera target with it
C13_Witness ==
    /\ TickDone
    /\ boatContainer.defined
    /\ local.checked.x < -Edge
    /\ boatContainer.position.x = Edge
    /\ camera.target.x = Edge
    /\ camera.target # pre.target

====
